---- MODULE Spec2Model ----
(***************************************************************************)
(* A model of the container-secrets command line tool: the .env processor  *)
(* (main / promptForMissingOptions / processEnvFile of the TypeScript      *)
(* entry point) and its preferences store (ConfigManager).                 *)
(*                                                                         *)
(* Strings whose characters the code inspects (keys, values, prefixes,     *)
(* secret names) are sequences of one-character strings.                   *)
(***************************************************************************)
EXTENDS Integers, Sequences, FiniteSets, TLC

(***************************************************************************)
(* Bounds of the model.                                                    *)
(***************************************************************************)
\* the largest number of key/value entries dotenv.parse yields for a file
MaxEntries == 2
\* how many distinct app / resource group names the users of the store type
NumNames == 6

\* config.js: slice(0, 5)
MaxHistory == 5

(***************************************************************************)
(* String helpers (JavaScript String methods).                             *)
(***************************************************************************)
LowerChar(c) ==
  CASE c = "A" -> "a" [] c = "B" -> "b" [] c = "F" -> "f" [] c = "O" -> "o"
    [] c = "P" -> "p" [] c = "R" -> "r" [] c = "T" -> "t" [] c = "V" -> "v"
    [] c = "X" -> "x" [] OTHER -> c

RECURSIVE toLowerCase(_)
toLowerCase(s) ==
  IF s = <<>> THEN <<>> ELSE <<LowerChar(Head(s))>> \o toLowerCase(Tail(s))

\* s.replace(/_/g, "-")
RECURSIVE replaceUnderscores(_)
replaceUnderscores(s) ==
  IF s = <<>> THEN <<>>
  ELSE <<IF Head(s) = "_" THEN "-" ELSE Head(s)>> \o replaceUnderscores(Tail(s))

startsWith(s, p) == Len(p) <= Len(s) /\ SubSeq(s, 1, Len(p)) = p

\* s.includes("\n") || s.includes("\r")
HasLineBreak(s) == \E i \in 1..Len(s) : s[i] \in {"\n", "\r"}

RECURSIVE Dedup(_)
\* [...new Set(list)]: the first occurrence of every value, in order
Dedup(s) ==
  IF s = <<>> THEN <<>>
  ELSE LET d == Dedup(SubSeq(s, 1, Len(s) - 1))
           x == s[Len(s)]
       IN IF \E i \in 1..Len(d) : d[i] = x THEN d ELSE Append(d, x)

\* list.slice(0, n)
Slice0(s, n) == SubSeq(s, 1, IF Len(s) < n THEN Len(s) ELSE n)

(***************************************************************************)
(* Pure functions of the entry point.                                      *)
(***************************************************************************)
\* the replacement text of bashSingleQuote: '"'"'
QuoteEscape == <<"'", "\"", "'", "\"", "'">>

RECURSIVE replaceQuotes(_)
\* value.replace(/'/g, `'"'"'`)
replaceQuotes(s) ==
  IF s = <<>> THEN <<>>
  ELSE (IF Head(s) = "'" THEN QuoteEscape ELSE <<Head(s)>>) \o replaceQuotes(Tail(s))

\* the value between single quotes as it is
bashSingleQuote_plain(value) == <<"'">> \o value \o <<"'">>

bashSingleQuote(value) == <<"'">> \o replaceQuotes(value) \o <<"'">>

\* prefix is <<>> when --secret-prefix is not given (undefined or "" are falsy)
normalizeSecretName(key, style, prefix) ==
  LET name == IF style = "kebab-lower" THEN replaceUnderscores(toLowerCase(key))
              ELSE IF style = "lower" THEN toLowerCase(key)
              ELSE key
  IN IF prefix # <<>> THEN prefix \o name ELSE name

\* findNameCollisions reporting a name only from its third key on
findNameCollisions_third(mapping) == SelectSeq(mapping, LAMBDA e : Len(e.keys) > 2)

\* mapping: the Map nameToKeys, a sequence of [name, keys] in insertion order.
\* The result lists the colliding groups (the code renders each as a line).
findNameCollisions(mapping) == SelectSeq(mapping, LAMBDA e : Len(e.keys) > 1)

\* the include list consulted first
shouldIncludeKey_includeFirst(key, includePrefixes, excludePrefixes) ==
  IF \E i \in 1..Len(includePrefixes) : startsWith(key, includePrefixes[i])
  THEN [include |-> TRUE, reason |-> "none"]
  ELSE IF \E i \in 1..Len(excludePrefixes) : startsWith(key, excludePrefixes[i])
  THEN [include |-> FALSE, reason |-> "excluded-prefix"]
  ELSE IF Len(includePrefixes) > 0
  THEN [include |-> FALSE, reason |-> "not-included-prefix"]
  ELSE [include |-> TRUE, reason |-> "none"]

shouldIncludeKey(key, includePrefixes, excludePrefixes) ==
  IF \E i \in 1..Len(excludePrefixes) : startsWith(key, excludePrefixes[i])
  THEN [include |-> FALSE, reason |-> "excluded-prefix"]
  ELSE IF Len(includePrefixes) > 0
          /\ ~ \E i \in 1..Len(includePrefixes) : startsWith(key, includePrefixes[i])
  THEN [include |-> FALSE, reason |-> "not-included-prefix"]
  ELSE [include |-> TRUE, reason |-> "none"]

(***************************************************************************)
(* JavaScript containers.  A plain object ({}) is the sequence of its own  *)
(* properties <<key, value>> in the order Object.entries and JSON.stringify *)
(* list them: the integer-like keys first, in ascending numeric order,     *)
(* then the other keys in insertion order.  A Map is a sequence of         *)
(* [name, keys] records in insertion order.                                *)
(***************************************************************************)
ProtoName == <<"_", "_", "p", "r", "o", "t", "o", "_", "_">>

ObjHas(obj, k) == \E i \in 1..Len(obj) : obj[i][1] = k
ObjGet(obj, k) == LET i == CHOOSE j \in 1..Len(obj) : obj[j][1] = k IN obj[i][2]

Digits == <<"0", "1", "2", "3", "4", "5", "6", "7", "8", "9">>
IsDigit(c) == \E d \in 1..Len(Digits) : Digits[d] = c
DigitVal(c) == (CHOOSE d \in 1..Len(Digits) : Digits[d] = c) - 1

RECURSIVE NumVal(_)
\* the number a string of digits denotes
NumVal(k) ==
  IF k = <<>> THEN 0
  ELSE NumVal(SubSeq(k, 1, Len(k) - 1)) * 10 + DigitVal(k[Len(k)])

\* an integer-like key (an array index): the canonical decimal form of an
\* integer (the keys of the model stay far below the limit of 2^32 - 2)
IsIndex(k) ==
  /\ Len(k) > 0
  /\ \A i \in 1..Len(k) : IsDigit(k[i])
  /\ (Len(k) = 1 \/ k[1] # "0")

\* obj[k] = v on an object literal, v a string: an existing property keeps its
\* place, a new integer-like key goes among the integer-like keys by its
\* number, any other new key is added last; "__proto__" is the accessor
\* inherited from Object.prototype, whose setter ignores a string, so no
\* property is created
ObjSet(obj, k, v) ==
  IF k = ProtoName THEN obj
  ELSE IF ObjHas(obj, k)
  THEN [i \in 1..Len(obj) |-> IF obj[i][1] = k THEN <<k, v>> ELSE obj[i]]
  ELSE IF IsIndex(k)
  THEN LET n == Cardinality({i \in 1..Len(obj) :
                               IsIndex(obj[i][1]) /\ NumVal(obj[i][1]) < NumVal(k)})
       IN SubSeq(obj, 1, n) \o << <<k, v>> >> \o SubSeq(obj, n + 1, Len(obj))
  ELSE Append(obj, <<k, v>>)

RECURSIVE parse(_)
\* dotenv.parse: obj[key] = value for each line of the text, in order, on a
\* plain object; lines is the text as its <<key, value>> lines
parse(lines) ==
  IF lines = <<>> THEN <<>>
  ELSE LET n == Len(lines)
       IN ObjSet(parse(SubSeq(lines, 1, n - 1)), lines[n][1], lines[n][2])

MapHas(m, n) == \E i \in 1..Len(m) : m[i].name = n

\* const existing = nameToKeys.get(n) || []; existing.push(key);
\* nameToKeys.set(n, existing)
MapPush(m, n, key) ==
  IF MapHas(m, n)
  THEN [i \in 1..Len(m) |-> IF m[i].name = n
                            THEN [name |-> n, keys |-> Append(m[i].keys, key)]
                            ELSE m[i]]
  ELSE Append(m, [name |-> n, keys |-> <<key>>])

SecretRefPrefix == <<"s", "e", "c", "r", "e", "t", "r", "e", "f", ":">>

(***************************************************************************)
(* The loop of processEnvFile over Object.entries(parsed).                 *)
(***************************************************************************)
LoopStart ==
  [secrets |-> <<>>, envVars |-> <<>>, processedKeys |-> <<>>,
   skippedKeys |-> <<>>, nameToKeys |-> <<>>, hasMultilineValues |-> FALSE,
   skippedReasons |-> [empty |-> 0, excluded |-> 0, notIncluded |-> 0]]

\* one iteration, for the entry <<key, value>>
LoopBody(st, key, value, o) ==
  IF Len(value) = 0
  THEN [st EXCEPT !.skippedKeys = Append(@, key), !.skippedReasons.empty = @ + 1]
  ELSE LET includeCheck == shouldIncludeKey(key, o.includePrefix, o.excludePrefix) IN
    IF ~includeCheck.include
    THEN [st EXCEPT !.skippedKeys = Append(@, key),
                    !.skippedReasons.excluded =
                        IF includeCheck.reason = "excluded-prefix" THEN @ + 1 ELSE @,
                    !.skippedReasons.notIncluded =
                        IF includeCheck.reason = "not-included-prefix" THEN @ + 1 ELSE @]
    ELSE LET secretName == normalizeSecretName(key, o.secretNameStyle, o.secretPrefix) IN
      [st EXCEPT
         !.nameToKeys = MapPush(@, secretName, key),
         !.secrets = IF ~o.envOnly THEN ObjSet(@, secretName, value) ELSE @,
         !.envVars = IF ~o.secretsOnly
                     THEN IF o.envMode = "secretref"
                          THEN ObjSet(@, key, SecretRefPrefix \o secretName)
                          ELSE ObjSet(@, key, value)
                     ELSE @,
         !.processedKeys = Append(@, key),
         !.hasMultilineValues = @ \/ HasLineBreak(value)]

RECURSIVE Loop(_, _)
\* entries: Object.entries(parsed), a sequence of <<key, value>>
Loop(entries, o) ==
  IF entries = <<>> THEN LoopStart
  ELSE LET n == Len(entries)
       IN LoopBody(Loop(SubSeq(entries, 1, n - 1), o), entries[n][1], entries[n][2], o)

(***************************************************************************)
(* ConfigManager (config.js).  The preferences file is                     *)
(*   [kind, app, group]: kind is "absent", "unreadable" (it exists and      *)
(*   reading it fails), "invalid" (not JSON) or "object" (a JSON object);   *)
(*   app and group are the values of lastUsedApp and lastUsedResourceGroup, *)
(*   each [tag, items]: tag "array" (of strings), "string" (a non-empty     *)
(*   string, any truthy value that is no array) or "missing".               *)
(***************************************************************************)
AllNames == <<"alpha", "beta", "gamma", "delta", "epsilon", "zeta", "eta", "theta">>
Names == {AllNames[i] : i \in 1..NumNames}

Arr(items) == [tag |-> "array", items |-> items]
NoArr(tag) == [tag |-> tag, items |-> <<>>]
NoFile(kind) == [kind |-> kind, app |-> NoArr("missing"), group |-> NoArr("missing")]
JsonFile(app, group) == [kind |-> "object", app |-> app, group |-> group]

\* v || []
OrEmpty(v) == IF v.tag = "missing" THEN Arr(<<>>) ELSE v

\* ensureConfigDir: TRUE when it returns, FALSE when mkdirSync throws.
\* The directory exists whenever the file in it does.
ensureConfigDir(file, creatable) == file.kind # "absent" \/ creatable

\* loadConfig: the object returned, and whether the warning was logged
loadConfig(file) ==
  IF file.kind = "object"
  THEN [lastUsedApp |-> OrEmpty(file.app),
        lastUsedResourceGroup |-> OrEmpty(file.group), warned |-> FALSE]
  ELSE [lastUsedApp |-> Arr(<<>>), lastUsedResourceGroup |-> Arr(<<>>),
        warned |-> file.kind # "absent"]

\* saveConfig with the failed write not reported
saveConfig_silent(file, lastUsedApp, lastUsedResourceGroup, writable) ==
  IF writable
  THEN [file |-> JsonFile(Arr(Slice0(Dedup(lastUsedApp), MaxHistory)),
                          Arr(Slice0(Dedup(lastUsedResourceGroup), MaxHistory))),
        warned |-> FALSE]
  ELSE [file |-> file, warned |-> FALSE]

\* saveConfig without the Set
saveConfig_dups(file, lastUsedApp, lastUsedResourceGroup, writable) ==
  IF writable
  THEN [file |-> JsonFile(Arr(Slice0(lastUsedApp, MaxHistory)),
                          Arr(Slice0(lastUsedResourceGroup, MaxHistory))),
        warned |-> FALSE]
  ELSE [file |-> file, warned |-> TRUE]

\* saveConfig: the file afterwards, and whether the warning was logged;
\* writable: whether writeFileSync succeeds
saveConfig(file, lastUsedApp, lastUsedResourceGroup, writable) ==
  LET uniqueApps == Slice0(Dedup(lastUsedApp), MaxHistory)
      uniqueGroups == Slice0(Dedup(lastUsedResourceGroup), MaxHistory)
  IN IF writable
     THEN [file |-> JsonFile(Arr(uniqueApps), Arr(uniqueGroups)), warned |-> FALSE]
     ELSE [file |-> file, warned |-> TRUE]

\* updateLastUsed: [file, threw, warned]; unshift on a value that is no array
\* is a TypeError, which nothing in config.js catches
updateLastUsed(file, appName, resourceGroup, writable) ==
  LET config == loadConfig(file) IN
  IF config.lastUsedApp.tag # "array" \/ config.lastUsedResourceGroup.tag # "array"
  THEN [file |-> file, threw |-> TRUE, warned |-> config.warned]
  ELSE LET saved == saveConfig(file,
                               <<appName>> \o config.lastUsedApp.items,
                               <<resourceGroup>> \o config.lastUsedResourceGroup.items,
                               writable)
       IN [file |-> saved.file, threw |-> FALSE,
           warned |-> config.warned \/ saved.warned]

(***************************************************************************)
(* The generated artifacts.  A file is [kind, head, body]: a script has    *)
(* the operation, app name and resource group as head and one              *)
(* <<key, quoted value>> per argument line as body; a JSON file has the    *)
(* properties of the object, in order, as body.                            *)
(***************************************************************************)
FileNames == {"secrets-command.sh", "secrets.json", "envvars-command.sh", "envvars.json"}
Absent == [kind |-> "absent", head |-> <<>>, body |-> <<>>]

ScriptText(operation, appName, resourceGroup, obj) ==
  [kind |-> "sh", head |-> <<operation, appName, resourceGroup>>,
   body |-> [i \in 1..Len(obj) |-> <<obj[i][1], bashSingleQuote(obj[i][2])>>]]

\* JSON.stringify(obj, null, 2) of an object of strings
JsonText(obj) == [kind |-> "json", head |-> <<>>, body |-> obj]

(***************************************************************************)
(* Inputs of the model.                                                    *)
(***************************************************************************)
TF_VAR_ == <<"T", "F", "_", "V", "A", "R", "_">>

\* the lines a .env file may hold, each as the <<key, value>> dotenv.parse
\* reads from it
EnvLines ==
  { << <<"A", "_", "B">>, <<"1">> >>,
    << <<"A", "-", "B">>, <<"2", "'">> >>,
    << <<"a", "_", "b">>, <<"3", "\n">> >>,
    << TF_VAR_ \o <<"X">>, <<"4">> >>,
    << <<"_", "_", "P", "R", "O", "T", "O", "_", "_">>, <<"5">> >>,
    << <<"E">>, <<>> >> }

RECURSIVE EntriesOfLen(_)
\* the texts of n lines
EntriesOfLen(n) ==
  IF n = 0 THEN {<<>>}
  ELSE {Append(e, l) : e \in EntriesOfLen(n - 1), l \in EnvLines}

\* the .env files of the model: the texts in which no key is repeated
DistinctKeys(e) == \A i, j \in 1..Len(e) : e[i][1] = e[j][1] => i = j
EnvFiles == UNION {{e \in EntriesOfLen(n) : DistinctKeys(e)} : n \in 0..MaxEntries}

Styles == {"kebab-lower", "lower", "preserve", "snake"}
EnvModes == {"secretref", "plain", "inline"}

CliOptions ==
  [file : {"env"}, name : {"alpha"}, resourceGroup : {"beta"},
   yes : BOOLEAN,
   includePrefix : {<<>>, << <<"A">> >>},
   excludePrefix : {<<TF_VAR_>>},
   secretNameStyle : Styles,
   secretPrefix : {<<>>, <<"p", "-">>},
   secretsOnly : BOOLEAN, envOnly : BOOLEAN,
   envMode : EnvModes]

\* the preferences file a run may find
PrefsStates ==
  { NoFile("absent"), NoFile("unreadable"), NoFile("invalid"),
    JsonFile(NoArr("string"), Arr(<<>>)),
    JsonFile(Arr(<<"alpha">>), NoArr("missing")) }

(***************************************************************************)
(* State.                                                                  *)
(***************************************************************************)
VARIABLES
  pc,          \* where the run is
  exitCode,    \* the exit status, -1 while the process runs
  options,     \* program.opts(), the options as given on the command line
  opts,        \* the copy of them promptForMissingOptions returns
  asked,       \* the questions inquirer asked, [name, type, pick, answer], in
               \* order; pick is the place of the choice taken in a list
  fileState,   \* the .env file as processEnvFile found it: "unknown" before
               \* it looks, then "missing", "unreadable" or "read"
  prefs,       \* ~/.azure-container-secrets/config.json
  fileContent, \* the <<key, value>> lines of the .env file, once read
  parsed,      \* Object.entries(dotenv.parse(fileContent))
  loop,        \* the locals the loop of processEnvFile fills
  files,       \* the four output files in the working directory
  written,     \* the output files written by this run, in order
  plainAnswer, \* the answer to the plaintext prompt: "unasked", "yes", "no"
  execAnswer,  \* the answer to the execution prompt
  executed,    \* the executeCommand calls, [script, success], in order
  running,     \* the scripts whose child process has started and not exited
  warnings,    \* the warnings logged
  raised,      \* the ConfigManager method whose exception reached the caller
  caught,      \* the call whose exception the catch of processEnvFile reported
  lastCall     \* [app, group]: the last updateLastUsed call that wrote the
               \* file; saved: whether the last call of all wrote it

vars == <<pc, exitCode, options, opts, asked, fileState, prefs, fileContent, parsed,
          loop, files,
          written, plainAnswer,
          execAnswer, executed, running, warnings, raised, caught,
                 lastCall>>

NoCall == [app |-> "", group |-> "", saved |-> FALSE]

Init ==
  /\ pc = "load"
  /\ exitCode = -1
  /\ options \in CliOptions
  /\ opts = options
  /\ asked = <<>>
  /\ fileState = "unknown"
  /\ prefs \in PrefsStates
  /\ fileContent = <<>>
  /\ parsed = <<>>
  /\ loop = LoopStart
  /\ files = [f \in FileNames |-> Absent]
  /\ written = <<>>
  /\ plainAnswer = "unasked"
  /\ execAnswer = "unasked"
  /\ executed = <<>>
  /\ running = {}
  /\ warnings = {}
  /\ raised = "none"
  /\ caught = "none"
  /\ lastCall = NoCall

\* lastCall after updateLastUsed(appName, resourceGroup)
Called(appName, resourceGroup, saved) ==
  IF saved THEN [app |-> appName, group |-> resourceGroup, saved |-> TRUE]
  ELSE [lastCall EXCEPT !.saved = FALSE]

\* process.exit(code), or the end of main
Exit(code) == pc' = "done" /\ exitCode' = code

\* a catch that reports the error and lets the run end as a success
Catch_swallow(error) == pc' = "done" /\ exitCode' = 0 /\ caught' = error

\* the catch of processEnvFile: the error of the call that threw is reported
\* and process.exit(1) ends the run
Catch(error) == Exit(1) /\ caught' = error

(***************************************************************************)
(* The run: module load, main, promptForMissingOptions, processEnvFile.    *)
(***************************************************************************)
\* const configManager = new ConfigManager(), while the module loads: an
\* exception of the constructor is uncaught and ends the process
LoadModule ==
  /\ pc = "load"
  /\ \E creatable \in BOOLEAN :
       IF ensureConfigDir(prefs, creatable)
       THEN pc' = "main" /\ UNCHANGED <<exitCode, raised>>
       ELSE Exit(1) /\ raised' = "constructor"
  /\ UNCHANGED <<running, options, asked, opts, fileState, prefs, fileContent, parsed,
                 loop, files, written, plainAnswer, execAnswer, executed,
                 warnings, caught, lastCall>>

\* the checks of main without the one of --secret-name-style
OptionsValid_anyStyle(o) ==
  /\ o.envMode \in {"secretref", "plain"}
  /\ ~(o.secretsOnly /\ o.envOnly)

\* the checks main makes of the options
OptionsValid(o) ==
  /\ o.secretNameStyle \in {"kebab-lower", "lower", "preserve"}
  /\ o.envMode \in {"secretref", "plain"}
  /\ ~(o.secretsOnly /\ o.envOnly)

\* main, up to the call of promptForMissingOptions
Main ==
  /\ pc = "main"
  /\ IF OptionsValid(options)
     THEN pc' = "prompt" /\ UNCHANGED exitCode
     ELSE Exit(1)
  /\ UNCHANGED <<running, options, asked, opts, fileState, prefs, fileContent, parsed,
                 loop, files, written, plainAnswer, execAnswer, executed,
                 warnings, raised, caught, lastCall>>

\* promptForMissingOptions with -f, -n and -g given: no question is pushed, and
\* the options come back as they are
PromptForMissingOptions ==
  /\ pc = "prompt"
  /\ LET config == loadConfig(prefs) IN
       warnings' = IF config.warned THEN warnings \cup {"config-load"} ELSE warnings
  /\ opts' = options
  /\ pc' = "process"
  /\ UNCHANGED <<exitCode, running, options, asked, fileState, prefs, fileContent,
                 parsed, loop, files, written, plainAnswer, execAnswer,
                 executed, raised, caught, lastCall>>

\* the coercion left out
Coerce_never(o) == o

\* --env-only with --env-mode secretref is switched to plain
Coerce(o) ==
  IF o.envMode = "secretref" /\ o.envOnly THEN [o EXCEPT !.envMode = "plain"] ELSE o

\* whether the plaintext prompt is asked
AsksPlain(o) == ~o.envOnly /\ o.envMode = "plain" /\ ~o.yes

\* processEnvFile from its start to the first prompt or write: the existence
\* check, the coercion, the read, the loop and the two fatal checks
ProcessEnvFile ==
  /\ pc = "process"
  /\ \E exists \in BOOLEAN, readable \in BOOLEAN, lines \in EnvFiles :
       IF ~exists
       THEN /\ readable /\ lines = <<>>
            /\ fileState' = "missing"
            /\ Exit(1)
            /\ UNCHANGED <<opts, fileContent, parsed, loop, warnings, caught>>
       ELSE LET o == Coerce(opts)
                w == IF o # opts THEN warnings \cup {"env-mode-coerced"} ELSE warnings
            IN /\ opts' = o
               /\ warnings' = w
               /\ fileState' = IF readable THEN "read" ELSE "unreadable"
               /\ IF ~readable
                  THEN /\ lines = <<>>
                       /\ Catch("readFileSync")
                       /\ UNCHANGED <<fileContent, parsed, loop>>
                  ELSE /\ UNCHANGED caught
                       /\ fileContent' = lines
                       /\ parsed' = parse(lines)
                       /\ loop' = Loop(parse(lines), o)
                       /\ IF Len(findNameCollisions(loop'.nameToKeys)) > 0
                          THEN Exit(1)
                          ELSE IF o.secretsOnly /\ o.envOnly
                          THEN Exit(1)
                          ELSE /\ pc' = IF AsksPlain(o) THEN "confirmPlain" ELSE "writeSecrets"
                               /\ UNCHANGED exitCode
  /\ UNCHANGED <<running, options, asked, prefs, files, written, plainAnswer, execAnswer,
                 executed, raised, lastCall>>

\* the plaintext confirmation prompt
\* a refusal at the plaintext prompt taken as a warning only
Cancelled_goOn == pc' = "writeSecrets" /\ UNCHANGED exitCode

\* if (!confirmPlain.confirm): "Cancelled." is logged and process.exit(0)
\* ends the run
Cancelled == Exit(0)

ConfirmPlain ==
  /\ pc = "confirmPlain"
  /\ \E confirm \in BOOLEAN :
       /\ plainAnswer' = IF confirm THEN "yes" ELSE "no"
       /\ IF confirm THEN pc' = "writeSecrets" /\ UNCHANGED exitCode ELSE Cancelled
  /\ UNCHANGED <<running, options, asked, opts, fileState, prefs, fileContent, parsed,
                 loop, files, written, execAnswer, executed, warnings, raised,
                 caught, lastCall>>

\* the writes of a group with a failed write passed over
WriteGroup_goOn(name1, text1, name2, text2, done, next) ==
  /\ files' = [files EXCEPT ![name1] = IF done >= 1 THEN text1 ELSE @,
                            ![name2] = IF done >= 2 THEN text2 ELSE @]
  /\ written' = written \o SubSeq(<<name1, name2>>, 1, done)
  /\ pc' = next /\ UNCHANGED <<exitCode, caught>>

\* the two writeFileSync calls of a group; done: how many of them return (an
\* exception of writeFileSync goes to the catch of processEnvFile)
WriteGroup(name1, text1, name2, text2, done, next) ==
  /\ files' = [files EXCEPT ![name1] = IF done >= 1 THEN text1 ELSE @,
                            ![name2] = IF done >= 2 THEN text2 ELSE @]
  /\ written' = written \o SubSeq(<<name1, name2>>, 1, done)
  /\ IF done = 2 THEN pc' = next /\ UNCHANGED <<exitCode, caught>>
     ELSE Catch("writeFileSync")

\* the secrets files written whatever the group flags are
WriteSecrets_always ==
  /\ pc = "writeSecrets"
  /\ \E done \in 0..2 :
       WriteGroup("secrets-command.sh",
                  ScriptText("secret set", opts.name, opts.resourceGroup, loop.secrets),
                  "secrets.json", JsonText(loop.secrets), done, "writeEnvVars")
  /\ UNCHANGED <<running, options, asked, opts, fileState, prefs, fileContent, parsed,
                 loop, plainAnswer, execAnswer, executed, warnings, raised,
                 lastCall>>

WriteSecrets ==
  /\ pc = "writeSecrets"
  /\ IF opts.envOnly
     THEN pc' = "writeEnvVars" /\ UNCHANGED <<exitCode, files, written, caught>>
     ELSE \E done \in 0..2 :
            WriteGroup("secrets-command.sh",
                       ScriptText("secret set", opts.name, opts.resourceGroup, loop.secrets),
                       "secrets.json", JsonText(loop.secrets), done, "writeEnvVars")
  /\ UNCHANGED <<running, options, asked, opts, fileState, prefs, fileContent, parsed,
                 loop, plainAnswer, execAnswer, executed, warnings, raised,
                 lastCall>>

WriteEnvVars ==
  /\ pc = "writeEnvVars"
  /\ IF opts.secretsOnly
     THEN pc' = "updateLastUsed" /\ UNCHANGED <<exitCode, files, written, caught>>
     ELSE \E done \in 0..2 :
            WriteGroup("envvars-command.sh",
                       ScriptText("update", opts.name, opts.resourceGroup, loop.envVars),
                       "envvars.json", JsonText(loop.envVars), done, "updateLastUsed")
  /\ UNCHANGED <<running, options, asked, opts, fileState, prefs, fileContent, parsed,
                 loop, plainAnswer, execAnswer, executed, warnings, raised,
                 lastCall>>

\* the execution prompt taken as answered by the plaintext prompt
AsksExecute_once(o) == ~o.yes /\ plainAnswer # "yes"

\* whether the execution prompt is asked (--yes answers it)
AsksExecute(o) == ~o.yes

\* the keys the loop went through, skipped ones included
totalProcessed_all(st) == Len(st.processedKeys) + Len(st.skippedKeys)

\* const totalProcessed = processedKeys.length
totalProcessed(st) == Len(st.processedKeys)

\* configManager.updateLastUsed and the summary after it, up to the
\* execution prompt
UpdateLastUsed ==
  /\ pc = "updateLastUsed"
  /\ \E writable \in BOOLEAN :
       LET r == updateLastUsed(prefs, opts.name, opts.resourceGroup, writable)
           w == warnings \cup (IF r.warned THEN {"config"} ELSE {})
                         \cup (IF loop.hasMultilineValues /\ ~r.threw
                               THEN {"multiline"} ELSE {})
       IN /\ prefs' = r.file
          /\ warnings' = w
          /\ lastCall' = Called(opts.name, opts.resourceGroup, ~r.threw /\ writable)
          /\ IF r.threw
             THEN Catch("updateLastUsed") /\ raised' = "updateLastUsed"
             ELSE /\ UNCHANGED <<raised, caught>>
                  /\ IF totalProcessed(loop) = 0
                     THEN Exit(0)
                     ELSE /\ pc' = IF AsksExecute(opts) THEN "confirmExec" ELSE "execSecrets"
                          /\ UNCHANGED exitCode
  /\ UNCHANGED <<running, options, asked, opts, fileState, fileContent, parsed, loop,
                 files, written, plainAnswer, execAnswer, executed>>

\* the execution prompt
ConfirmExec ==
  /\ pc = "confirmExec"
  /\ \E execute \in BOOLEAN :
       /\ execAnswer' = IF execute THEN "yes" ELSE "no"
       /\ IF execute THEN pc' = "execSecrets" /\ UNCHANGED exitCode ELSE Exit(0)
  /\ UNCHANGED <<running, options, asked, opts, fileState, prefs, fileContent, parsed,
                 loop, files, written, plainAnswer, executed, warnings, raised,
                 caught, lastCall>>

\* executeCommand deleting the script it ran
executeCommand_unlink(filePath, success) ==
  /\ executed' = Append(executed, [script |-> filePath, success |-> success])
  /\ files' = [files EXCEPT ![filePath] = Absent]

\* executeCommand: chmod +x and run, both awaited; success is the outcome.
\* Neither touches the contents of a file.
executeCommand(filePath, success) ==
  /\ executed' = Append(executed, [script |-> filePath, success |-> success])
  /\ files' = files

\* a failed script reported and the step carried on with
ScriptFailed_goOn(next) ==
  /\ pc' = next
  /\ exitCode' = IF next = "done" THEN 1 ELSE exitCode

\* what follows a failed script: the error is printed and process.exit(1) ends
\* the run; next is where a script that succeeded goes on
ScriptFailed(next) == Exit(1)

\* where the caller is once the child of executeCommand has started: the
\* call is not awaited and the caller goes on
Await_detached(awaiting, next) == next

\* where the caller is once the child of executeCommand has started: await
\* suspends it until executeCommand returns, which is when the child exited
Await(awaiting, next) == awaiting

\* execAsync: the child process of a script starts
execAsync(filePath) == running' = running \cup {filePath}

ExecSecrets ==
  /\ pc = "execSecrets"
  /\ IF opts.envOnly
     THEN pc' = "execEnvVars" /\ UNCHANGED running
     ELSE execAsync("secrets-command.sh") /\ pc' = Await("runSecrets", "execEnvVars")
  /\ UNCHANGED <<exitCode, options, asked, opts, fileState, prefs, fileContent,
                 parsed, loop, files, written, plainAnswer, execAnswer, executed,
                 warnings, raised, caught, lastCall>>

\* the child of secrets-command.sh exits and executeCommand returns
SecretsExited ==
  /\ pc = "runSecrets"
  /\ \E success \in BOOLEAN :
       /\ executeCommand("secrets-command.sh", success)
       /\ running' = running \ {"secrets-command.sh"}
       /\ IF success THEN pc' = "execEnvVars" /\ UNCHANGED exitCode
          ELSE ScriptFailed("execEnvVars")
  /\ UNCHANGED <<options, asked, opts, fileState, prefs, fileContent, parsed,
                 loop, written, plainAnswer, execAnswer, warnings, raised,
                 caught, lastCall>>

ExecEnvVars ==
  /\ pc = "execEnvVars"
  /\ IF opts.secretsOnly
     THEN Exit(0) /\ UNCHANGED running
     ELSE /\ execAsync("envvars-command.sh")
          /\ pc' = Await("runEnvVars", "done")
          /\ exitCode' = IF pc' = "done" THEN 0 ELSE exitCode
  /\ UNCHANGED <<options, asked, opts, fileState, prefs, fileContent,
                 parsed, loop, files, written, plainAnswer, execAnswer, executed,
                 warnings, raised, caught, lastCall>>

\* the child of envvars-command.sh exits and executeCommand returns
EnvVarsExited ==
  /\ pc = "runEnvVars"
  /\ \E success \in BOOLEAN :
       /\ executeCommand("envvars-command.sh", success)
       /\ running' = running \ {"envvars-command.sh"}
       /\ IF success THEN Exit(0) ELSE ScriptFailed("done")
  /\ UNCHANGED <<options, asked, opts, fileState, prefs, fileContent, parsed,
                 loop, written, plainAnswer, execAnswer, warnings, raised,
                 caught, lastCall>>

Next ==
  \/ LoadModule
  \/ Main
  \/ PromptForMissingOptions
  \/ ProcessEnvFile
  \/ ConfirmPlain
  \/ WriteSecrets
  \/ WriteEnvVars
  \/ UpdateLastUsed
  \/ ConfirmExec
  \/ ExecSecrets
  \/ SecretsExited
  \/ ExecEnvVars
  \/ EnvVarsExited

Spec == Init /\ [][Next]_vars

(***************************************************************************)
(* The preferences store over many runs: updateLastUsed called again and   *)
(* again on the file the last call left.                                   *)
(***************************************************************************)
\* resource group names typed in the store's specification
GroupNames == {AllNames[1], AllNames[2]}

\* a preferences file as saveConfig writes it
FullHistory == [i \in 1..MaxHistory |-> AllNames[i]]

InitStore ==
  /\ pc = "store"
  /\ exitCode = -1
  /\ options \in {o \in CliOptions : o.yes /\ o.envMode = "secretref" /\ ~o.envOnly
                    /\ ~o.secretsOnly /\ o.secretNameStyle = "kebab-lower"
                    /\ o.includePrefix = <<>> /\ o.secretPrefix = <<>>}
  /\ opts = options
  /\ asked = <<>>
  /\ fileState = "unknown"
  /\ prefs \in { NoFile("absent"),
                 JsonFile(Arr(<<>>), Arr(<<>>)),
                 JsonFile(Arr(FullHistory), Arr(<<AllNames[2]>>)) }
  /\ fileContent = <<>>
  /\ parsed = <<>>
  /\ loop = LoopStart
  /\ files = [f \in FileNames |-> Absent]
  /\ written = <<>>
  /\ plainAnswer = "unasked"
  /\ execAnswer = "unasked"
  /\ executed = <<>>
  /\ running = {}
  /\ warnings = {}
  /\ raised = "none"
  /\ caught = "none"
  /\ lastCall = NoCall

\* one call of updateLastUsed(appName, resourceGroup)
StoreUpdate ==
  /\ pc = "store"
  /\ \E appName \in Names, resourceGroup \in GroupNames, writable \in BOOLEAN :
       LET r == updateLastUsed(prefs, appName, resourceGroup, writable)
       IN /\ prefs' = r.file
          /\ lastCall' = Called(appName, resourceGroup, ~r.threw /\ writable)
          /\ raised' = IF r.threw THEN "updateLastUsed" ELSE raised
          /\ warnings' = IF r.warned THEN warnings \cup {"config"} ELSE warnings
  /\ UNCHANGED <<pc, exitCode, running, options, asked, opts, fileState, fileContent,
                 parsed, loop, files, written, plainAnswer, execAnswer,
                 executed, caught>>

NextStore == StoreUpdate

SpecStore == InitStore /\ [][NextStore]_vars

(***************************************************************************)
(* The loop of processEnvFile on its own, one iteration a step, over more  *)
(* prefix lists than the run above is given.                               *)
(***************************************************************************)
FilterOptions ==
  [file : {"env"}, name : {"alpha"}, resourceGroup : {"beta"},
   yes : {TRUE},
   includePrefix : {<<>>, << <<"A">> >>, << <<"T">>, <<"a">> >>},
   excludePrefix : {<<>>, <<TF_VAR_>>, << <<"A", "_">>, <<"E">> >>},
   secretNameStyle : {"kebab-lower", "preserve"},
   secretPrefix : {<<>>},
   secretsOnly : {FALSE}, envOnly : {FALSE},
   envMode : {"secretref"}]

InitFilter ==
  /\ pc = "loop"
  /\ exitCode = -1
  /\ options \in FilterOptions
  /\ opts = options
  /\ asked = <<>>
  /\ fileState = "read"
  /\ prefs = NoFile("absent")
  /\ fileContent \in EnvFiles
  /\ parsed = parse(fileContent)
  /\ loop = LoopStart
  /\ files = [f \in FileNames |-> Absent]
  /\ written = <<>>
  /\ plainAnswer = "unasked"
  /\ execAnswer = "unasked"
  /\ executed = <<>>
  /\ running = {}
  /\ warnings = {}
  /\ raised = "none"
  /\ caught = "none"
  /\ lastCall = NoCall

\* one iteration of the loop; parsed holds the entries still to come
LoopStep ==
  /\ pc = "loop"
  /\ parsed # <<>>
  /\ loop' = LoopBody(loop, Head(parsed)[1], Head(parsed)[2], opts)
  /\ parsed' = Tail(parsed)
  /\ UNCHANGED <<pc, exitCode, running, options, asked, opts, fileState, prefs,
                 fileContent, files, written, plainAnswer, execAnswer, executed,
                 warnings, raised, caught, lastCall>>

NextFilter == LoopStep

SpecFilter == InitFilter /\ [][NextFilter]_vars

(***************************************************************************)
(* promptForMissingOptions with any of -f, -n and -g left out.  An option  *)
(* that was not given is NotGiven; an option given as the empty string is  *)
(* as falsy and is taken for one not given.                                *)
(***************************************************************************)
NotGiven == ""
Sentinel == "_new_"

\* a || b on option values
Or(a, b) == IF a # NotGiven THEN a ELSE b

\* config.lastUsedApp.length is truthy: a non-empty array or string
HasLength(v) == (v.tag = "array" /\ v.items # <<>>) \/ v.tag = "string"

Question(name, type, pick, answer) ==
  [name |-> name, type |-> type, pick |-> pick, answer |-> answer]

\* the questions of one of the fields name and resourceGroup, with the value
\* the answers give the field: [asked, value, threw].  history is the stored
\* list, pick the choice the user takes in a list, typed and typedNew what the
\* user types into the input and into the follow-up input.  The choices of a
\* list are the stored values and, last, the sentinel; .map on a history that
\* is no array is a TypeError.  An answer equal to the sentinel is replaced
\* by the answer to the follow-up question, which is undefined when that
\* question was not pushed.
FieldQuestions(field, followUp, given, history, new, pick, typed, typedNew) ==
  IF given # NotGiven
  THEN [asked |-> <<>>, value |-> NotGiven, threw |-> FALSE]
  ELSE IF HasLength(history) /\ ~new
  THEN IF history.tag # "array"
       THEN [asked |-> <<>>, value |-> NotGiven, threw |-> TRUE]
       ELSE LET choices == Append(history.items, Sentinel)
                answer == choices[pick]
            IN [asked |-> <<Question(field, "list", pick, answer)>> \o
                          (IF answer = Sentinel
                           THEN <<Question(followUp, "input", 0, typedNew)>>
                           ELSE <<>>),
                value |-> IF answer = Sentinel THEN typedNew ELSE answer,
                threw |-> FALSE]
  ELSE [asked |-> <<Question(field, "input", 0, typed)>>,
        value |-> IF typed = Sentinel THEN NotGiven ELSE typed,
        threw |-> FALSE]

\* promptForMissingOptions(opts): [asked, result, threw]; input is what the
\* user would answer to each question
promptForMissingOptions(o, config, input) ==
  LET f == IF o.file = NotGiven
           THEN [asked |-> <<Question("file", "input", 0, input.file)>>,
                 value |-> input.file]
           ELSE [asked |-> <<>>, value |-> NotGiven]
      n == FieldQuestions("name", "newName", o.name, config.lastUsedApp, o.new,
                          input.namePick, input.name, input.newName)
      g == FieldQuestions("resourceGroup", "newResourceGroup", o.resourceGroup,
                          config.lastUsedResourceGroup, o.new,
                          input.groupPick, input.resourceGroup,
                          input.newResourceGroup)
  IN IF n.threw \/ g.threw
     THEN [asked |-> <<>>, result |-> o, threw |-> TRUE]
     ELSE [asked |-> f.asked \o n.asked \o g.asked,
           result |-> [o EXCEPT !.name = Or(n.value, o.name),
                                !.resourceGroup = Or(g.value, o.resourceGroup),
                                !.file = Or(f.value, o.file)],
           threw |-> FALSE]

\* what the user types into an input question (validate refuses the empty
\* string)
TypedNames == {"gamma", Sentinel}

PromptOptions ==
  [file : {NotGiven, "env"}, name : {NotGiven, "alpha"},
   resourceGroup : {NotGiven, "beta"}, new : BOOLEAN,
   yes : {TRUE}, includePrefix : {<<>>}, excludePrefix : {<<TF_VAR_>>},
   secretNameStyle : {"kebab-lower"}, secretPrefix : {<<>>},
   secretsOnly : {FALSE}, envOnly : {FALSE}, envMode : {"secretref"}]

\* the preferences files of the prompt's specification; a run with
\* -n _new_ stores that name as any other
PromptPrefs ==
  { NoFile("absent"),
    JsonFile(Arr(<<"alpha", Sentinel>>), Arr(<<"beta">>)),
    JsonFile(Arr(<<>>), Arr(<<"beta", "alpha">>)),
    JsonFile(NoArr("string"), Arr(<<>>)) }

InitPrompt ==
  /\ pc = "prompt"
  /\ exitCode = -1
  /\ options \in PromptOptions
  /\ opts = options
  /\ asked = <<>>
  /\ fileState = "unknown"
  /\ prefs \in PromptPrefs
  /\ fileContent = <<>>
  /\ parsed = <<>>
  /\ loop = LoopStart
  /\ files = [f \in FileNames |-> Absent]
  /\ written = <<>>
  /\ plainAnswer = "unasked"
  /\ execAnswer = "unasked"
  /\ executed = <<>>
  /\ running = {}
  /\ warnings = {}
  /\ raised = "none"
  /\ caught = "none"
  /\ lastCall = NoCall

\* main calling promptForMissingOptions; its exception goes to the catch of
\* main(), which ends the run with exit code 1
PromptForInputs ==
  /\ pc = "prompt"
  /\ LET config == loadConfig(prefs) IN
     \E namePick \in 1..(Len(config.lastUsedApp.items) + 1),
        groupPick \in 1..(Len(config.lastUsedResourceGroup.items) + 1),
        typed \in [file : {"env"}, name : TypedNames, newName : TypedNames,
                   resourceGroup : TypedNames, newResourceGroup : TypedNames] :
       LET input == [file |-> typed.file, name |-> typed.name,
                     newName |-> typed.newName,
                     resourceGroup |-> typed.resourceGroup,
                     newResourceGroup |-> typed.newResourceGroup,
                     namePick |-> namePick, groupPick |-> groupPick]
           r == promptForMissingOptions(options, config, input)
       IN /\ asked' = r.asked
          /\ opts' = r.result
          /\ warnings' = IF config.warned THEN warnings \cup {"config-load"}
                         ELSE warnings
          /\ IF r.threw THEN Exit(1) ELSE pc' = "process" /\ UNCHANGED exitCode
  /\ UNCHANGED <<running, options, fileState, prefs, fileContent, parsed, loop, files,
                 written, plainAnswer, execAnswer, executed, raised, caught,
                 lastCall>>

NextPrompt == PromptForInputs

SpecPrompt == InitPrompt /\ [][NextPrompt]_vars

(***************************************************************************)
(* The writing of envvars-command.sh and envvars.json on its own, for a    *)
(* file of one line whose value is any string of up to MaxValueLen of the  *)
(* characters that matter to a shell, alone or followed by a line whose    *)
(* key is made of digits.                                                  *)
(***************************************************************************)
MaxValueLen == 3
QuoteChars == {"a", "'", "\"", "$", "\n"}

RECURSIVE ValuesOfLen(_)
ValuesOfLen(n) ==
  IF n = 0 THEN {<<>>}
  ELSE {Append(v, c) : v \in ValuesOfLen(n - 1), c \in QuoteChars}

QuoteValues == UNION {ValuesOfLen(n) : n \in 0..MaxValueLen}

DigitLine == << <<"7">>, <<"6">> >>
WriteFiles ==
  UNION {{<< <<<<"K">>, value>> >>, << <<<<"K">>, value>>, DigitLine >>} :
           value \in QuoteValues}

\* processEnvFile with --env-only --env-mode plain --yes, up to the writes
InitWrite ==
  /\ pc = "writeEnvVars"
  /\ exitCode = -1
  /\ options \in {o \in CliOptions :
                    /\ o.yes /\ o.envOnly /\ ~o.secretsOnly /\ o.envMode = "plain"
                    /\ o.secretNameStyle = "kebab-lower"
                    /\ o.includePrefix = <<>> /\ o.secretPrefix = <<>>}
  /\ opts = options
  /\ asked = <<>>
  /\ fileState = "read"
  /\ prefs = NoFile("absent")
  /\ fileContent \in WriteFiles
  /\ parsed = parse(fileContent)
  /\ loop = Loop(parsed, opts)
  /\ files = [f \in FileNames |-> Absent]
  /\ written = <<>>
  /\ plainAnswer = "unasked"
  /\ execAnswer = "unasked"
  /\ executed = <<>>
  /\ running = {}
  /\ warnings = {}
  /\ raised = "none"
  /\ caught = "none"
  /\ lastCall = NoCall

NextWrite == WriteEnvVars

SpecWrite == InitWrite /\ [][NextWrite]_vars

(***************************************************************************)
(* Properties.                                                             *)
(***************************************************************************)
WrittenSet == {written[i] : i \in 1..Len(written)}
Ran(script) == \E i \in 1..Len(executed) : executed[i].script = script
Failed(script) ==
  \E i \in 1..Len(executed) : executed[i].script = script /\ ~executed[i].success

\* an entry that is neither empty nor filtered out
Survives(e, o) ==
  Len(e[2]) > 0 /\ shouldIncludeKey(e[1], o.includePrefix, o.excludePrefix).include

TargetName(e, o) == normalizeSecretName(e[1], o.secretNameStyle, o.secretPrefix)

\* two distinct surviving keys with one target name
HasCollision(entries, o) ==
  \E i, j \in 1..Len(entries) :
     /\ i # j
     /\ Survives(entries[i], o) /\ Survives(entries[j], o)
     /\ TargetName(entries[i], o) = TargetName(entries[j], o)

\* C1: when two or more distinct surviving keys normalize to one target name,
\* the run is over with exit code 1 and has written none of the four output
\* files, whatever the group and mode flags are.
C1_CollisionAborts ==
  HasCollision(parsed, opts) =>
    /\ pc = "done" /\ exitCode = 1
    /\ written = <<>>
    /\ \A f \in FileNames : files[f] = Absent

C1_Witness ==
  /\ HasCollision(parsed, opts) /\ pc = "done"
  /\ opts.secretNameStyle = "lower" /\ opts.envOnly

\* C2: with both groups generated, when executing secrets-command.sh has
\* failed, envvars-command.sh has been executed too by the time the run ends.
C2_CompanionAttempted ==
  (pc = "done" /\ ~opts.secretsOnly /\ ~opts.envOnly /\ Failed("secrets-command.sh"))
    => Ran("envvars-command.sh")

\* C2, amended: a failed script ends the run at once with exit code 1;
\* after a failure of secrets-command.sh, envvars-command.sh is not executed,
\* and it is executed only after every script before it succeeded.
C2_FailureEndsRun ==
  /\ (Failed("secrets-command.sh") \/ Failed("envvars-command.sh")) =>
        pc = "done" /\ exitCode = 1
  /\ Failed("secrets-command.sh") => ~Ran("envvars-command.sh")
  /\ \A i \in 1..Len(executed) : i < Len(executed) => executed[i].success

C2_Witness ==
  /\ Failed("secrets-command.sh") /\ ~opts.secretsOnly /\ ~opts.envOnly
  /\ pc = "done"

\* C3: without --yes, envvars-command.sh and envvars.json are written with
\* literal values only after the plaintext prompt was answered yes.
C3_PlaintextConfirmed ==
  ( /\ ~options.yes
    /\ opts.envMode = "plain"
    /\ \E f \in {"envvars-command.sh", "envvars.json"} :
          f \in WrittenSet /\ Len(files[f].body) > 0 )
    => plainAnswer = "yes"

Processing == {"confirmPlain", "writeSecrets", "writeEnvVars", "updateLastUsed",
               "confirmExec", "execSecrets", "runSecrets", "execEnvVars",
               "runEnvVars"}

\* the value the .env file gives key
ValueOf(key) == ObjGet(parsed, key)

\* C4: invoked with --env-only and --env-mode secretref, the run switches the
\* mode to plain with a warning before it generates anything, writes no
\* secrets file, and every value of envvars.json is the literal value of its
\* key and no secretref:<name> string.
C4_EnvOnlyCoerced ==
  (options.envOnly /\ options.envMode = "secretref") =>
    /\ (pc \in Processing \/ written # <<>>) =>
          opts.envMode = "plain" /\ "env-mode-coerced" \in warnings
    /\ WrittenSet \cap {"secrets-command.sh", "secrets.json"} = {}
    /\ "envvars.json" \in WrittenSet =>
          LET body == files["envvars.json"].body IN
          \A i \in 1..Len(body) :
             /\ ObjHas(parsed, body[i][1])
             /\ body[i][2] = ValueOf(body[i][1])
             /\ ~startsWith(body[i][2], SecretRefPrefix)

C4_Witness ==
  /\ options.envOnly /\ options.envMode = "secretref"
  /\ "envvars.json" \in WrittenSet
  /\ Len(files["envvars.json"].body) = 2

\* C5: with both groups generated in secretref mode and the files written,
\* every key t of secrets.json is referenced by exactly one key k of
\* envvars.json, with value secretref:t and t the normalized k, and every key
\* of envvars.json references a key of secrets.json.
C5_RoundTrip ==
  ( /\ ~options.secretsOnly /\ ~options.envOnly /\ opts.envMode = "secretref"
    /\ {"secrets.json", "envvars.json"} \subseteq WrittenSet )
    => LET S == files["secrets.json"].body
           E == files["envvars.json"].body
       IN /\ \A i \in 1..Len(S) :
               Cardinality({j \in 1..Len(E) :
                  /\ E[j][2] = SecretRefPrefix \o S[i][1]
                  /\ S[i][1] = normalizeSecretName(E[j][1], opts.secretNameStyle,
                                                   opts.secretPrefix)}) = 1
          /\ \A j \in 1..Len(E) :
               \E i \in 1..Len(S) : E[j][2] = SecretRefPrefix \o S[i][1]

\* the items of a list of the preferences file
Items(file, field) ==
  IF file.kind = "object" /\ file[field].tag = "array" THEN file[field].items ELSE <<>>

NoDuplicates(list) == \A i, j \in 1..Len(list) : list[i] = list[j] => i = j

\* list with value moved (or put) in front, cut to n
MovedToFront(list, value, n) ==
  Slice0(<<value>> \o SelectSeq(list, LAMBDA x : x # value), n)

\* C6: from an absent or valid file, after any calls of updateLastUsed the
\* two lists have at most 5 entries and no duplicates, the first entry is the
\* value of the latest successful call, and a successful call moves its value
\* to the front of the list it found, keeping the order of the others.
C6_BoundedRecentFirst ==
  /\ [](\A field \in {"app", "group"} :
          /\ Len(Items(prefs, field)) <= 5
          /\ NoDuplicates(Items(prefs, field))
          /\ (lastCall.app # "" => /\ Items(prefs, "app")[1] = lastCall.app
                                   /\ Items(prefs, "group")[1] = lastCall.group))
  /\ [][lastCall'.saved =>
          /\ Items(prefs', "app") = MovedToFront(Items(prefs, "app"), lastCall'.app, 5)
          /\ Items(prefs', "group") =
                MovedToFront(Items(prefs, "group"), lastCall'.group, 5)]_vars

C6_Witness ==
  /\ lastCall.saved
  /\ Len(Items(prefs, "app")) = 5
  /\ Items(prefs, "app")[1] = AllNames[6]
  /\ Items(prefs, "app")[2] = AllNames[3]

\* C7: no operation of the preferences store raises an error to its caller.
C7_StoreNeverRaises == raised = "none"

\* C8: a run with an input error (an invalid --secret-name-style or
\* --env-mode, --secrets-only with --env-only, or a missing input file) writes
\* none of the output files and, once over, has exit code 1.
InputError ==
  \/ options.secretNameStyle \notin {"kebab-lower", "lower", "preserve"}
  \/ options.envMode \notin {"secretref", "plain"}
  \/ (options.secretsOnly /\ options.envOnly)
  \/ fileState = "missing"

C8_InputErrorsAbort ==
  InputError =>
    /\ written = <<>>
    /\ \A f \in FileNames : files[f] = Absent
    /\ pc = "done" => exitCode = 1

C8_Witness ==
  /\ pc = "done" /\ raised = "none"
  /\ options.secretsOnly /\ options.envOnly
  /\ options.secretNameStyle = "preserve" /\ options.envMode = "plain"

\* C9: a generated script is executed only with --yes or after the execution
\* prompt was answered yes; a yes to the plaintext prompt alone runs nothing.
C9_ExecutionConfirmed ==
  /\ executed # <<>> => (options.yes \/ execAnswer = "yes")
  /\ (plainAnswer = "yes" /\ execAnswer # "yes") => executed = <<>>

C9_Witness ==
  /\ plainAnswer = "yes" /\ execAnswer = "yes" /\ ~options.yes
  /\ Ran("envvars-command.sh")

\* what the generator writes to file f
GeneratedText(f) ==
  CASE f = "secrets-command.sh" ->
         ScriptText("secret set", opts.name, opts.resourceGroup, loop.secrets)
    [] f = "secrets.json" -> JsonText(loop.secrets)
    [] f = "envvars-command.sh" ->
         ScriptText("update", opts.name, opts.resourceGroup, loop.envVars)
    [] f = "envvars.json" -> JsonText(loop.envVars)

\* C10: once a generated script has failed, the run is over with exit code 1
\* and every output file holds what the generator wrote to it.
C10_FailureKeepsArtifacts ==
  (Failed("secrets-command.sh") \/ Failed("envvars-command.sh")) =>
    /\ pc = "done" /\ exitCode = 1
    /\ \A f \in FileNames :
         files[f] = IF f \in WrittenSet THEN GeneratedText(f) ELSE Absent

C10_Witness ==
  /\ Failed("envvars-command.sh")
  /\ Len(files["envvars-command.sh"].body) = 2
  /\ Len(files["secrets.json"].body) = 2

PcOrder == <<"load", "main", "prompt", "process", "confirmPlain", "writeSecrets",
             "writeEnvVars", "updateLastUsed", "confirmExec", "execSecrets",
             "runSecrets", "execEnvVars", "runEnvVars", "done">>
Rank(p) == CHOOSE i \in 1..Len(PcOrder) : PcOrder[i] = p

\* the output files the group flags select
Selected(o) ==
  (IF o.envOnly THEN {} ELSE {"secrets-command.sh", "secrets.json"})
    \cup (IF o.secretsOnly THEN {} ELSE {"envvars-command.sh", "envvars.json"})

\* C12: a run that ended with exit code 0 after generating files has written
\* the preferences file, and a run that has not written its output files has
\* not written the preferences file.
C12_UpdatedOnce ==
  /\ (pc = "done" /\ exitCode = 0 /\ written # <<>>) => lastCall.saved
  /\ WrittenSet # Selected(opts) => lastCall = NoCall

\* C12, amended: the preferences file is written only by the one
\* updateLastUsed step of a run, which is taken at most once and only after
\* every selected output file was written; a run that ended with exit code 0
\* after generating files has either written the preferences file, with its
\* app name and resource group in front, or logged the warning of a failed
\* save and left the file as it was.
C12_UpdateAttemptedOnce ==
  [][ /\ Rank(pc') > Rank(pc)
      /\ (prefs' # prefs \/ lastCall' # lastCall) =>
           (pc = "updateLastUsed" /\ WrittenSet = Selected(opts))
      /\ WrittenSet' # Selected(opts') => lastCall' = NoCall
      /\ (pc' = "done" /\ exitCode' = 0 /\ written' # <<>>) =>
           \/ /\ lastCall'.saved
              /\ Items(prefs', "app")[1] = opts.name
              /\ Items(prefs', "group")[1] = opts.resourceGroup
           \/ /\ lastCall' = NoCall
              /\ "config" \in warnings' ]_vars

C12_Witness ==
  /\ pc = "done" /\ exitCode = 0 /\ Len(written) = 2
  /\ lastCall = NoCall /\ "config" \in warnings
  /\ prefs = NoFile("absent")

\* the number of properties of a written JSON file with this name
Count(f, name) == Cardinality({i \in 1..Len(files[f].body) : files[f].body[i][1] = name})

\* C13: when the JSON files are written, every entry of the input with a
\* non-empty value that the prefix filters keep has exactly one property in
\* secrets.json (under its target name) and exactly one in envvars.json (under
\* its key), and no name occurs twice in either file.
C13_OneEntryPerKey ==
  /\ "secrets.json" \in WrittenSet =>
       /\ \A i \in 1..Len(parsed) :
             Survives(parsed[i], opts) =>
               Count("secrets.json", TargetName(parsed[i], opts)) = 1
       /\ NoDuplicates([i \in 1..Len(files["secrets.json"].body) |->
                          files["secrets.json"].body[i][1]])
  /\ "envvars.json" \in WrittenSet =>
       /\ \A i \in 1..Len(parsed) :
             Survives(parsed[i], opts) => Count("envvars.json", parsed[i][1]) = 1
       /\ NoDuplicates([i \in 1..Len(files["envvars.json"].body) |->
                          files["envvars.json"].body[i][1]])

\* the first line of the .env file with this key, or that gives this secret name
LineOfKey(key) == CHOOSE i \in 1..Len(fileContent) : fileContent[i][1] = key
LineOfName(name) ==
  CHOOSE i \in 1..Len(fileContent) :
    Survives(fileContent[i], opts) /\ TargetName(fileContent[i], opts) = name

\* C14: the properties of envvars.json and of secrets.json are in the order in
\* which their keys first appear in the input file, for every key the parser
\* accepts, keys made only of digits included.
C14_InputOrder ==
  /\ "envvars.json" \in WrittenSet =>
       LET E == files["envvars.json"].body IN
       \A i, j \in 1..Len(E) : i < j => LineOfKey(E[i][1]) < LineOfKey(E[j][1])
  /\ "secrets.json" \in WrittenSet =>
       LET S == files["secrets.json"].body IN
       \A i, j \in 1..Len(S) : i < j => LineOfName(S[i][1]) < LineOfName(S[j][1])

\* the writes of the run are over and none of them failed
Generated ==
  \/ pc \in {"updateLastUsed", "confirmExec", "execSecrets", "runSecrets",
            "execEnvVars", "runEnvVars"}
  \/ (pc = "done" /\ written # <<>> /\ caught # "writeFileSync")

SecretsFiles == {"secrets-command.sh", "secrets.json"}
EnvVarsFiles == {"envvars-command.sh", "envvars.json"}

\* C15: after a successful generation the files written are exactly the two
\* secrets files with --secrets-only, exactly the two envvars files with
\* --env-only and all four with neither flag, each written once with the
\* generated text; at no point of a run is a file of a group that the flags
\* leave out written or other than it was at the start.
C15_FilesByFlags ==
  /\ Generated =>
       /\ options.secretsOnly => WrittenSet = SecretsFiles
       /\ options.envOnly => WrittenSet = EnvVarsFiles
       /\ (~options.secretsOnly /\ ~options.envOnly) => WrittenSet = FileNames
       /\ Len(written) = Cardinality(WrittenSet)
       /\ \A f \in WrittenSet : files[f] = GeneratedText(f)
  /\ options.secretsOnly =>
       \A f \in EnvVarsFiles : f \notin WrittenSet /\ files[f] = Absent
  /\ options.envOnly =>
       \A f \in SecretsFiles : f \notin WrittenSet /\ files[f] = Absent

C15_Witness ==
  /\ Generated /\ pc = "done" /\ exitCode = 0
  /\ options.envOnly
  /\ Len(files["envvars.json"].body) = 2
  /\ files["secrets.json"] = Absent

\* the script of the group a file belongs to
GroupOf(script) == IF script = "secrets-command.sh" THEN SecretsFiles ELSE EnvVarsFiles

\* C16: the steps of a run follow the order of the code and none is taken
\* twice; an output file is written only after the input was read and the
\* collision check found nothing; the preferences update is made when every
\* selected output file is written and no script has been started; a script
\* is started only after the preferences update and when the files of its
\* group hold the generated text.
C16_StepOrder ==
  [][ /\ Rank(pc') > Rank(pc)
      /\ written' # written =>
           /\ pc \in {"writeSecrets", "writeEnvVars"}
           /\ fileState = "read"
           /\ Len(findNameCollisions(loop.nameToKeys)) = 0
           /\ ~HasCollision(parsed, opts)
      /\ (pc = "updateLastUsed" \/ prefs' # prefs \/ lastCall' # lastCall) =>
           /\ pc = "updateLastUsed"
           /\ WrittenSet = Selected(opts)
           /\ executed = <<>>
           /\ running = {}
      /\ running' \ running # {} =>
           /\ pc \in {"execSecrets", "execEnvVars"}
           /\ Rank(pc) > Rank("updateLastUsed")
           /\ \A script \in running' \ running : \A f \in GroupOf(script) :
                f \in WrittenSet /\ files[f] = GeneratedText(f)
      /\ executed' # executed =>
           /\ pc \in {"runSecrets", "runEnvVars"}
           /\ executed'[Len(executed')].script \in running ]_vars

C16_Witness ==
  /\ Len(executed) = 2 /\ Len(written) = 4
  /\ lastCall.saved
  /\ Len(parsed) = 2 /\ Len(loop.processedKeys) = 1

\* the entries the loop has been through
Looped ==
  LET all == parse(fileContent) IN SubSeq(all, 1, Len(all) - Len(parsed))

AnyPrefix(key, prefixes) == \E i \in 1..Len(prefixes) : startsWith(key, prefixes[i])

\* what the rule of the filters makes of an entry
Verdict(e, o) ==
  IF Len(e[2]) = 0 THEN "empty"
  ELSE IF AnyPrefix(e[1], o.excludePrefix) THEN "excluded-prefix"
  ELSE IF Len(o.includePrefix) > 0 /\ ~AnyPrefix(e[1], o.includePrefix)
  THEN "not-included-prefix"
  ELSE "included"

KeysWith(verdict) ==
  LET hit == SelectSeq(Looped, LAMBDA e : Verdict(e, opts) = verdict)
  IN [i \in 1..Len(hit) |-> hit[i][1]]

\* C17: after any number of iterations, the processed keys are the keys with
\* a non-empty value that start with no exclude prefix and, when include
\* prefixes are given, with one of them, the prefixes compared with the key as
\* it stands in the file; the three skip counters count the empty values, the
\* excluded keys among the others and the not included keys among the rest,
\* and add up to the number of skipped keys.
C17_FilterVerdicts ==
  /\ loop.processedKeys = KeysWith("included")
  /\ loop.skippedReasons.empty = Len(KeysWith("empty"))
  /\ loop.skippedReasons.excluded = Len(KeysWith("excluded-prefix"))
  /\ loop.skippedReasons.notIncluded = Len(KeysWith("not-included-prefix"))
  /\ Len(loop.skippedKeys) = loop.skippedReasons.empty + loop.skippedReasons.excluded
                               + loop.skippedReasons.notIncluded
  /\ Len(loop.skippedKeys) + Len(loop.processedKeys) = Len(Looped)

\* a key with an include and an exclude prefix and a key with neither went
\* through the loop
C17_Witness ==
  /\ pc = "loop" /\ parsed = <<>>
  /\ opts.includePrefix = << <<"T">>, <<"a">> >>
  /\ opts.excludePrefix = <<TF_VAR_>>
  /\ loop.skippedReasons.excluded = 1
  /\ loop.skippedReasons.notIncluded = 1

Asked(name) == \E i \in 1..Len(asked) : asked[i].name = name
AskedAs(name, type) ==
  \E i \in 1..Len(asked) : asked[i].name = name /\ asked[i].type = type

\* the sentinel choice, the last of the list, was taken in the list of name
PickedSentinel(name, field) ==
  \E i \in 1..Len(asked) :
     /\ asked[i].name = name /\ asked[i].type = "list"
     /\ asked[i].pick = Len(Items(prefs, field)) + 1

\* C18: promptForMissingOptions asks no question about an input given by
\* flag and returns that input as it was; once it has returned, the list of
\* a field was shown exactly when the field was not given, its stored history
\* is not empty and --new is not set, and the follow-up input of a field was
\* asked exactly when the sentinel choice was taken in its list.
C18_PromptsOnlyMissing ==
  /\ options.file # NotGiven => (~Asked("file") /\ opts.file = options.file)
  /\ options.name # NotGiven =>
       (~Asked("name") /\ ~Asked("newName") /\ opts.name = options.name)
  /\ options.resourceGroup # NotGiven =>
       /\ ~Asked("resourceGroup") /\ ~Asked("newResourceGroup")
       /\ opts.resourceGroup = options.resourceGroup
  /\ pc = "process" =>
       /\ AskedAs("name", "list") <=>
            (options.name = NotGiven /\ Items(prefs, "app") # <<>> /\ ~options.new)
       /\ AskedAs("resourceGroup", "list") <=>
            /\ options.resourceGroup = NotGiven
            /\ Items(prefs, "group") # <<>> /\ ~options.new
       /\ Asked("newName") <=> PickedSentinel("name", "app")
       /\ Asked("newResourceGroup") <=> PickedSentinel("resourceGroup", "group")

\* C19: when a run has ended with an error, it has written none of the
\* selected output files or it has written every one of them, each holding
\* the generated text.
C19_AllOrNothing ==
  (pc = "done" /\ exitCode # 0) =>
    \/ WrittenSet = {}
    \/ /\ WrittenSet = Selected(opts)
       /\ \A f \in WrittenSet : files[f] = GeneratedText(f)

RECURSIVE ShellScan(_, _, _, _)
\* a shell reading the word w from its i-th character on: outside quotes a
\* single or double quote opens a quoted segment and any other character
\* stands unquoted; inside single quotes everything up to the next single
\* quote is literal; a double-quoted segment ends at the next double quote.
\* r gathers the value read, whether a character stood outside quotes, the
\* double-quoted segments, and whether the word ended outside quotes.
ShellScan(w, i, mode, r) ==
  IF i > Len(w) THEN [r EXCEPT !.closed = (mode = "out")]
  ELSE LET c == w[i] IN
    CASE mode = "out" /\ c = "'" -> ShellScan(w, i + 1, "sq", r)
      [] mode = "out" /\ c = "\"" ->
           ShellScan(w, i + 1, "dq", [r EXCEPT !.dq = Append(@, <<>>)])
      [] mode = "out" /\ c \notin {"'", "\""} ->
           ShellScan(w, i + 1, "out",
                     [r EXCEPT !.value = Append(@, c), !.outside = TRUE])
      [] mode = "sq" /\ c = "'" -> ShellScan(w, i + 1, "out", r)
      [] mode = "sq" /\ c # "'" ->
           ShellScan(w, i + 1, "sq", [r EXCEPT !.value = Append(@, c)])
      [] mode = "dq" /\ c = "\"" -> ShellScan(w, i + 1, "out", r)
      [] mode = "dq" /\ c # "\"" ->
           ShellScan(w, i + 1, "dq",
                     [r EXCEPT !.value = Append(@, c),
                               !.dq[Len(r.dq)] = Append(@, c)])

ShellRead(w) ==
  ShellScan(w, 1, "out",
            [value |-> <<>>, outside |-> FALSE, dq |-> <<>>, closed |-> FALSE])

QuotesIn(value) == Cardinality({i \in 1..Len(value) : value[i] = "'"})

\* word is value quoted without loss
Lossless(word, value) ==
  LET r == ShellRead(word) IN
  /\ Len(word) >= 2 /\ word[1] = "'" /\ word[Len(word)] = "'"
  /\ r.closed /\ ~r.outside
  /\ r.value = value
  /\ Len(r.dq) = QuotesIn(value)
  /\ \A i \in 1..Len(r.dq) : r.dq[i] = <<"'">>
  /\ Len(word) = Len(value) + 2 + 4 * QuotesIn(value)

\* C20: bashSingleQuote of the value of the input line starts and ends with
\* a single quote, holds one double-quoted single quote for each single quote
\* of the value and nothing outside quotes, and reads back under the shell's
\* quoting rules as the value; so does every argument of the written
\* envvars-command.sh with respect to the value it was generated from.
C20_QuoteLossless ==
  /\ \A i \in 1..Len(fileContent) :
       Lossless(bashSingleQuote(fileContent[i][2]), fileContent[i][2])
  /\ "envvars-command.sh" \in WrittenSet =>
       LET body == files["envvars-command.sh"].body IN
       /\ Len(body) = Len(loop.envVars)
       /\ \A i \in 1..Len(body) :
            /\ body[i][1] = loop.envVars[i][1]
            /\ Lossless(body[i][2], loop.envVars[i][2])

C20_Witness ==
  /\ "envvars-command.sh" \in WrittenSet
  /\ loop.envVars = << <<<<"K">>, <<"'", "a", "'">>>> >>
  /\ files["envvars-command.sh"].body[1][2] =
       <<"'", "'", "\"", "'", "\"", "'", "a", "'", "\"", "'", "\"", "'", "'">>

\* the child of envvars-command.sh has been started
EnvVarsStarted == "envvars-command.sh" \in running \/ Ran("envvars-command.sh")

\* secrets-command.sh has run to its end with success
SecretsFinished ==
  /\ "secrets-command.sh" \notin running
  /\ \E i \in 1..Len(executed) :
        executed[i] = [script |-> "secrets-command.sh", success |-> TRUE]

\* the two scripts never run at the same time, and envvars-command.sh is
\* started only when secrets-command.sh has finished
Sequential ==
  /\ Cardinality(running) <= 1
  /\ (EnvVarsStarted /\ ~opts.envOnly) => SecretsFinished

\* the secret names the lines of envvars-command.sh reference
Referenced ==
  LET E == files["envvars-command.sh"].body IN
  {SubSeq(ShellRead(E[j][2]).value, Len(SecretRefPrefix) + 1,
          Len(ShellRead(E[j][2]).value)) :
     j \in {k \in 1..Len(E) : startsWith(ShellRead(E[k][2]).value, SecretRefPrefix)}}

\* the secret names secrets-command.sh sets
Submitted ==
  LET S == files["secrets-command.sh"].body IN {S[i][1] : i \in 1..Len(S)}

\* C21: the two scripts never run at the same time and secrets-command.sh has
\* finished before envvars-command.sh is started, and in secretref mode every
\* secret a line of envvars-command.sh references was set by the
\* secrets-command.sh that finished before.
C21_SecretsBeforeEnvVars ==
  /\ Sequential
  /\ (EnvVarsStarted /\ ~opts.envOnly /\ ~opts.secretsOnly
        /\ opts.envMode = "secretref") =>
        SecretsFinished /\ Referenced \subseteq Submitted

\* both scripts executed in secretref mode, the second still running
BothExecuted ==
  /\ ~opts.envOnly /\ ~opts.secretsOnly /\ opts.envMode = "secretref"
  /\ running = {"envvars-command.sh"} /\ Len(loop.processedKeys) = 2

\* C22: once promptForMissingOptions has returned, the app name and the
\* resource group it returned are non-empty strings, neither undefined nor
\* the sentinel "_new_", whatever the flags, the stored history and the
\* answers were.
C22_NamesResolved ==
  pc = "process" =>
    /\ opts.name \notin {NotGiven, Sentinel}
    /\ opts.resourceGroup \notin {NotGiven, Sentinel}

\* the file was read and none of its entries survives the filters
ZeroSurvive ==
  fileState = "read" /\ \A i \in 1..Len(parsed) : ~Survives(parsed[i], opts)

\* C23: when zero keys survive parsing and filtering, the run ends having
\* executed no script and asked no execution confirmation, having written the
\* selected output files and the preferences file, with exit code 0.
C23_ZeroKeysStillGenerate ==
  (ZeroSurvive /\ pc = "done") =>
    /\ executed = <<>> /\ execAnswer = "unasked"
    /\ WrittenSet = Selected(opts)
    /\ lastCall.saved
    /\ exitCode = 0

\* C23, amended: when zero keys survive parsing and filtering, no script is
\* ever started and the execution confirmation is never asked, even with
\* --yes.  A run the user ended by declining the plaintext confirmation has
\* written nothing and exits 0; a run ended by an error of a file write or
\* of the preferences update exits 1; every other run has written, when it
\* ends, each selected output file with its generated text, has called the
\* preferences update, which saved the names or logged a warning, and exits 0.
C23_ZeroKeysNeverExecute ==
  ZeroSurvive =>
    /\ Len(loop.processedKeys) = 0
    /\ executed = <<>> /\ running = {} /\ execAnswer = "unasked"
    /\ Rank(pc) <= Rank("updateLastUsed") \/ pc = "done"
    /\ pc = "done" =>
         IF plainAnswer = "no"
         THEN exitCode = 0 /\ written = <<>> /\ lastCall = NoCall
         ELSE IF caught = "writeFileSync"
         THEN exitCode = 1 /\ lastCall = NoCall
         ELSE IF caught = "updateLastUsed"
         THEN exitCode = 1 /\ WrittenSet = Selected(opts) /\ lastCall = NoCall
         ELSE /\ exitCode = 0
              /\ WrittenSet = Selected(opts)
              /\ \A f \in FileNames :
                   files[f] = IF f \in WrittenSet THEN GeneratedText(f) ELSE Absent
              /\ \/ /\ lastCall.saved
                    /\ lastCall.app = opts.name
                    /\ lastCall.group = opts.resourceGroup
                 \/ lastCall = NoCall /\ "config" \in warnings

C23_Witness ==
  /\ ZeroSurvive /\ pc = "done" /\ exitCode = 0
  /\ options.yes /\ Len(parsed) = 2 /\ Len(loop.skippedKeys) = 2
  /\ Len(written) = 4 /\ lastCall.saved

\* C24: once the user has declined the plaintext confirmation the run is over
\* with exit code 0: none of the four output files was written or exists,
\* updateLastUsed was not called (nothing saved, warned or raised by it), the
\* execution prompt was not asked and no script was started.
C24_DeclineWritesNothing ==
  plainAnswer = "no" =>
    /\ pc = "done" /\ exitCode = 0
    /\ written = <<>>
    /\ \A f \in FileNames : files[f] = Absent
    /\ lastCall = NoCall /\ "config" \notin warnings
    /\ raised = "none" /\ caught = "none"
    /\ execAnswer = "unasked" /\ executed = <<>> /\ running = {}

C24_Witness ==
  /\ plainAnswer = "no" /\ pc = "done"
  /\ ~opts.secretsOnly /\ opts.envMode = "plain"
  /\ Len(loop.processedKeys) = 2 /\ Len(loop.envVars) = 2

====
